---- MODULE Spec2Model ----
(***************************************************************************)
(* A model of gh_review_queue.py: the page walk and the normalization of   *)
(* fetch_open_prs, the classifier _needs_attention, the ranking step of    *)
(* main, the grouping of render_html, main's pipeline from the first page  *)
(* request to the report, and the two threads of a spinner context.        *)
(*                                                                         *)
(* Python and JSON values are tagged records, so that a value that may be  *)
(* a dict, a list, None or missing can sit in one field:                   *)
(*   Absent     the key is not in the dict                                 *)
(*   None       Python None, JSON null                                     *)
(*   Str(s)     a string;  Ts(d) an ISO-8601 timestamp string, d its       *)
(*              digits (GitHub's DateTime has one fixed-width UTC format)  *)
(*   Num(n)     an integer;  Bool(b) a boolean                             *)
(*   Obj(f)     a dict, f a record of its keys (an Absent key is missing)  *)
(*   EmptyDict  the literal {}                                             *)
(*   List(q)    a list                                                     *)
(*   Raise(e)   the evaluation raised exception e                          *)
(***************************************************************************)
EXTENDS Integers, Sequences, FiniteSets, TLC

VARIABLES
    pc,          \* where the run is
    cursor,      \* fetch_open_prs: cursor
    all_prs,     \* fetch_open_prs: all_prs
    requests,    \* the cursors of the page requests sent so far
    served,      \* the responses the upstream gave to them
    ignore,      \* main: ignore
    output,      \* main: output
    prs,         \* main: prs
    viewer,      \* main: viewer / _needs_attention: viewer
    report,      \* what main wrote or printed
    exit_code,   \* the outcome of the process
    stderr,      \* the diagnostics printed
    viewer_resp, \* the answer the upstream gave to the viewer query
    repo,        \* fetch_open_prs: repo (the raw repository node)
    pr,          \* fetch_open_prs: pr (a raw node) / _needs_attention: pr
    record,      \* the result of the function under study
    done,        \* spinner: done (the threading.Event)
    spin,        \* spinner: where the thread t is in _spin
    frame,       \* spinner: how many frames _spin took from the cycle
    pending,     \* spinner: how the body of the with statement ended
    set_at       \* spinner: how much was written when done was set

\* The state of a spinner context.
spinner_vars == <<done, spin, frame, pending, set_at>>

\* The state of main other than its position and the diagnostics stream.
main_vars ==
    <<cursor, all_prs, requests, served, ignore, output, prs, viewer,
      report, exit_code, viewer_resp, repo, pr, record>>

vars == <<pc, stderr, main_vars, spinner_vars>>

\* ------------------------------------------------------------ values

Absent == [tag |-> "absent"]
None == [tag |-> "none"]
EmptyDict == [tag |-> "emptydict"]
Str(s) == [tag |-> "str", s |-> s]
Ts(d) == [tag |-> "ts", d |-> d]
Num(n) == [tag |-> "int", n |-> n]
Bool(b) == [tag |-> "bool", b |-> b]
Obj(f) == [tag |-> "obj", f |-> f]
List(q) == [tag |-> "list", items |-> q]
Raise(e) == [tag |-> "raise", exc |-> e]
EmptyList == List(<<>>)

IsRaise(v) == v.tag = "raise"

\* No spinner context is open.
NoSpinner ==
    /\ done = FALSE /\ spin = "unstarted" /\ frame = 0
    /\ pending = None /\ set_at = None

\* d.get(k, default)
DictGet(d, k, default) ==
    CASE d.tag = "raise" -> d
      [] d.tag = "emptydict" -> default
      [] d.tag = "obj" -> IF d.f[k].tag = "absent" THEN default ELSE d.f[k]
      [] OTHER -> Raise("AttributeError")

\* d[k]
DictIndex(d, k) ==
    CASE d.tag = "raise" -> d
      [] d.tag = "emptydict" -> Raise("KeyError")
      [] d.tag = "obj" -> IF d.f[k].tag = "absent" THEN Raise("KeyError") ELSE d.f[k]
      [] OTHER -> Raise("TypeError")

\* l[0]
ListFirst(l) ==
    CASE l.tag = "raise" -> l
      [] l.tag = "list" -> IF l.items = <<>> THEN Raise("IndexError") ELSE l.items[1]
      [] l.tag \in {"emptydict", "obj"} -> Raise("KeyError")
      [] OTHER -> Raise("TypeError")

\* bool(v)
Truthy(v) ==
    CASE v.tag = "none" -> FALSE
      [] v.tag = "emptydict" -> FALSE
      [] v.tag = "obj" -> \E k \in DOMAIN v.f : v.f[k].tag # "absent"
      [] v.tag = "list" -> v.items # <<>>
      [] v.tag = "str" -> v.s # ""
      [] v.tag = "int" -> v.n # 0
      [] v.tag = "bool" -> v.b
      [] OTHER -> TRUE

\* a or b
PyOr(a, b) == IF IsRaise(a) THEN a ELSE IF Truthy(a) THEN a ELSE b

\* for x in v: the sequence iterated over, or the exception
Iter(v) ==
    CASE v.tag = "raise" -> v
      [] v.tag = "list" -> v
      [] v.tag = "emptydict" -> EmptyList
      [] OTHER -> Raise("TypeError")

\* The first exception among the results of a sequence of evaluations.
FirstRaise(rs) ==
    rs[CHOOSE i \in 1..Len(rs) :
          /\ IsRaise(rs[i])
          /\ \A j \in 1..(i - 1) : ~IsRaise(rs[j])]

AnyRaise(rs) == \E i \in 1..Len(rs) : IsRaise(rs[i])

Skip == [tag |-> "skip"]

\* [f(x) for x in src if cond(x)], given each element's result: a value, Skip
\* (the condition was false) or an exception.
Comprehension(src, results) ==
    IF IsRaise(src) THEN src
    ELSE IF AnyRaise(results) THEN FirstRaise(results)
    ELSE List(SelectSeq(results, LAMBDA r : r.tag # "skip"))

\* ------------------------------------------------- fetch_open_prs: a node

\* One element of the requested_reviewers comprehension.
RequestedReviewerOf(node) ==
    LET rr == DictGet(node, "requestedReviewer", None)
    IN  IF IsRaise(rr) THEN rr
        ELSE IF ~Truthy(rr) THEN Skip
        ELSE LET login == DictGet(DictIndex(node, "requestedReviewer"), "login", None)
             IN  IF IsRaise(login) THEN login
                 ELSE IF ~Truthy(login) THEN Skip
                 ELSE DictIndex(DictIndex(node, "requestedReviewer"), "login")

\* One element of the reviews comprehension.
ReviewOf(r) ==
    LET author == DictGet(PyOr(DictGet(r, "author", None), EmptyDict), "login", Str("ghost"))
        created_at == DictIndex(r, "createdAt")
    IN  IF AnyRaise(<<author, created_at>>) THEN FirstRaise(<<author, created_at>>)
        ELSE [tag |-> "review", author |-> author, created_at |-> created_at]

\* One element of the labels comprehension.
LabelOf(l) ==
    LET name == DictIndex(l, "name")
        color == DictIndex(l, "color")
    IN  IF AnyRaise(<<name, color>>) THEN FirstRaise(<<name, color>>)
        ELSE [tag |-> "label", name |-> name, color |-> color]

RequestedReviewers(p) ==
    LET src == Iter(DictGet(DictGet(p, "reviewRequests", EmptyDict), "nodes", EmptyList))
    IN  Comprehension(src,
            IF IsRaise(src) THEN <<>>
            ELSE [i \in 1..Len(src.items) |-> RequestedReviewerOf(src.items[i])])

Reviews(p) ==
    LET src == Iter(DictGet(DictGet(p, "reviews", EmptyDict), "nodes", EmptyList))
    IN  Comprehension(src,
            IF IsRaise(src) THEN <<>>
            ELSE [i \in 1..Len(src.items) |-> ReviewOf(src.items[i])])

Labels(p) ==
    LET src == Iter(DictGet(DictGet(p, "labels", EmptyDict), "nodes", EmptyList))
    IN  Comprehension(src,
            IF IsRaise(src) THEN <<>>
            ELSE [i \in 1..Len(src.items) |-> LabelOf(src.items[i])])

Commits(p) == DictGet(DictGet(p, "commits", EmptyDict), "nodes", EmptyList)

LastCommit(p) ==
    LET commits == Commits(p)
    IN  IF IsRaise(commits) THEN commits
        ELSE IF Truthy(commits) THEN DictIndex(ListFirst(commits), "commit")
        ELSE EmptyDict

Rollup(p) == PyOr(DictGet(LastCommit(p), "statusCheckRollup", None), EmptyDict)

\* The body of the inner loop of fetch_open_prs: the record appended to
\* all_prs for raw node p of repository node rp, or the exception raised.
\* The parts are evaluated in the order of the code.
Normalize(rp, p) ==
    LET parts == <<
            Commits(p), LastCommit(p), Rollup(p),
            RequestedReviewers(p), Reviews(p),
            DictIndex(rp, "name"),
            DictIndex(p, "number"),
            DictIndex(p, "title"),
            DictIndex(p, "url"),
            DictIndex(p, "createdAt"),
            DictIndex(p, "isDraft"),
            DictGet(PyOr(DictGet(p, "author", None), EmptyDict), "login", Str("ghost")),
            Labels(p),
            DictIndex(DictIndex(p, "comments"), "totalCount"),
            DictIndex(DictIndex(p, "reviews"), "totalCount"),
            DictGet(LastCommit(p), "committedDate", None),
            DictGet(Rollup(p), "state", None) >>
    IN  IF AnyRaise(parts) THEN FirstRaise(parts)
        ELSE [tag |-> "record",
              repo |-> parts[6],
              number |-> parts[7],
              title |-> parts[8],
              url |-> parts[9],
              created_at |-> parts[10],
              is_draft |-> parts[11],
              author |-> parts[12],
              labels |-> parts[13].items,
              comment_count |-> parts[14],
              review_count |-> parts[15],
              requested_reviewers |-> parts[4].items,
              reviews |-> parts[5].items,
              last_commit_date |-> parts[16],
              ci_state |-> parts[17]]

\* ------------------------------------------------- raw nodes (the inputs)

Digits == {0, 1}
\* The timestamps: every string of two digits.
Timestamps == {Ts(<<a, b>>) : a \in Digits, b \in Digits}

User(login) == Obj([login |-> login])
\* A requested reviewer that is a team: the query's "... on User" fragment
\* selects nothing of it.
Team == Obj([login |-> Absent])

Connection(nodes) == Obj([nodes |-> nodes])
ReviewRequest(rr) == Obj([requestedReviewer |-> rr])
ReviewNode(a, t) == Obj([author |-> a, createdAt |-> t])
ReviewConnection(n, nodes) == Obj([totalCount |-> n, nodes |-> nodes])
CommitEntry(c) == Obj([commit |-> c])
Commit(d, r) == Obj([committedDate |-> d, statusCheckRollup |-> r])
LabelNode == Obj([name |-> Str("bug"), color |-> Str("d73a4a")])

RawPr(number, title, url, createdAt, author, labels, reviewRequests, reviews, commits) ==
    Obj([number |-> number, title |-> title, url |-> url, createdAt |-> createdAt,
         isDraft |-> Bool(FALSE), author |-> author, labels |-> labels,
         comments |-> Obj([totalCount |-> Num(0)]),
         reviewRequests |-> reviewRequests, reviews |-> reviews, commits |-> commits])

RawRepo(name) == Obj([name |-> name])

\* The shapes each optional sub-object of a raw node takes: absent, null,
\* empty, or present, at each nesting level.
AuthorShapes == {Absent, None, User(Str("bob"))}

LabelsShapes ==
    {Absent, None, Connection(None), Connection(EmptyList),
     Connection(List(<<None>>)), Connection(List(<<LabelNode>>))}

ReviewRequestsShapes ==
    {Absent, None, Connection(None), Connection(EmptyList)}
    \cup {Connection(List(<<n>>)) :
            n \in {None, ReviewRequest(None), ReviewRequest(Team),
                   ReviewRequest(User(Str("alice")))}}
    \cup {Connection(List(<<ReviewRequest(Team), ReviewRequest(User(Str("alice")))>>))}

ReviewsShapes ==
    {Absent, None, ReviewConnection(Num(0), None), ReviewConnection(Num(0), EmptyList)}
    \cup {ReviewConnection(Num(1), List(<<n>>)) :
            n \in {None, ReviewNode(None, Ts(<<0, 1>>)),
                   ReviewNode(User(Str("alice")), Ts(<<0, 1>>))}}

CommitsShapes ==
    {Absent, None, Connection(None), Connection(EmptyList)}
    \cup {Connection(List(<<e>>)) :
            e \in {None, CommitEntry(None),
                   CommitEntry(Commit(Absent, Absent)),
                   CommitEntry(Commit(Ts(<<1, 0>>), None)),
                   CommitEntry(Commit(Ts(<<1, 0>>), Obj([state |-> Str("SUCCESS")])))}}

\* The fields every node of the query carries.
RequiredFields == {"name", "number", "title", "url"}

\* A field that is there unless it is the one chosen to be missing.
Unless(missing, k, v) == IF missing = k THEN Absent ELSE v

\* ------------------------------------------------- SpecNorm: one node

\* The required fields missing from node p of repository node rp.
MissingRequired(rp, p) ==
    {k \in RequiredFields :
        IF k = "name" THEN rp.f.name = Absent ELSE p.f[k] = Absent}

\* Any node with at most one required field missing and every combination
\* of the optional shapes.
InitNorm ==
    /\ pc = "raw"
    /\ \E missing \in RequiredFields \cup {"none"} :
         /\ repo = RawRepo(Unless(missing, "name", Str("a")))
         /\ \E a \in AuthorShapes, l \in LabelsShapes, rr \in ReviewRequestsShapes,
               rv \in ReviewsShapes, cm \in CommitsShapes :
              pr = RawPr(Unless(missing, "number", Num(1)),
                         Unless(missing, "title", Str("t")),
                         Unless(missing, "url", Str("u")),
                         Ts(<<0, 0>>), a, l, rr, rv, cm)
    /\ record = None
    /\ cursor = None /\ all_prs = <<>> /\ requests = <<>> /\ served = <<>>
    /\ ignore = {} /\ output = None /\ prs = <<>> /\ viewer = None
    /\ report = None /\ exit_code = None /\ stderr = <<>>
    /\ viewer_resp = None
    /\ NoSpinner

\* fetch_open_prs, lines 159-191, on one node.
NormalizeNode ==
    /\ pc = "raw"
    /\ record' = Normalize(repo, pr)
    /\ pc' = IF IsRaise(Normalize(repo, pr)) THEN "raised" ELSE "normalized"
    /\ UNCHANGED <<cursor, all_prs, requests, served, ignore, output, prs, viewer,
                   report, exit_code, stderr, viewer_resp, repo, pr>>
    /\ UNCHANGED spinner_vars

NextNorm == NormalizeNode

SpecNorm == InitNorm /\ [][NextNorm]_vars

OptionalFields == {"author", "labels", "reviewRequests", "reviews", "commits"}

\* Every optional sub-object of node p is absent.
AllOptionalAbsent(p) == \A k \in OptionalFields : p.f[k] = Absent

\* No optional sub-object of node p is absent at the top level: each is
\* null, empty or present.
NoOptionalAbsent(p) == \A k \in OptionalFields : p.f[k] # Absent

\* C9: a raw node with every optional field absent and the required fields
\* present is normalized, without raising, to a record with author "ghost",
\* no labels, no requested reviewers, no reviews and an unknown ci_state.
C9_DefaultsWhenAllAbsent ==
    (pc # "raw" /\ MissingRequired(repo, pr) = {} /\ AllOptionalAbsent(pr))
        => /\ pc = "normalized"
           /\ record.author = Str("ghost")
           /\ record.labels = <<>>
           /\ record.requested_reviewers = <<>>
           /\ record.reviews = <<>>
           /\ record.ci_state = None

\* C10: normalization never raises when an optional sub-object is null
\* rather than absent, at any nesting level; with the required fields there,
\* a record is produced.
C10_NullNeverRaises ==
    (pc # "raw" /\ MissingRequired(repo, pr) = {} /\ NoOptionalAbsent(pr))
        => pc = "normalized"

\* ------------------------------------------------- _needs_attention

\* a < b on two strings: Python compares them character by character, and a
\* proper prefix is the smaller.
StrLess(a, b) ==
    \/ \E i \in 1..Len(a) :
          /\ i <= Len(b)
          /\ a[i] < b[i]
          /\ \A j \in 1..(i - 1) : a[j] = b[j]
    \/ /\ Len(a) < Len(b)
       /\ \A j \in 1..Len(a) : a[j] = b[j]

\* a > b on two timestamp strings
TsGreater(a, b) == StrLess(b.d, a.d)

\* max(...) over a non-empty sequence of timestamp strings: the first of the
\* greatest, found left to right.
RECURSIVE PyMaxFrom(_, _, _)
PyMaxFrom(q, i, best) ==
    IF i > Len(q) THEN best
    ELSE PyMaxFrom(q, i + 1, IF TsGreater(q[i], best) THEN q[i] ELSE best)

\* A variant that trusts the reviews to be listed oldest first.
PyMaxLastListed(q) == q[Len(q)]

PyMax(q) == PyMaxFrom(q, 2, q[1])

\* x in q, for a list q
PyIn(x, q) == \E i \in 1..Len(q) : q[i] = x

\* The viewer's reviews of record p, in the order of p's reviews.
MyReviews(p, v) == SelectSeq(p.reviews, LAMBDA r : r.author = v)

CreatedAts(q) == [i \in 1..Len(q) |-> q[i].created_at]

\* A variant that also counts a commit made at the instant of the review.
NewCommitsNotStrict(p, v) ==
    LET my_reviews == MyReviews(p, v)
    IN  /\ my_reviews # <<>>
        /\ Truthy(p.last_commit_date)
        /\ ~TsGreater(PyMax(CreatedAts(my_reviews)), p.last_commit_date)

\* Rule 3, lines 301-305.
NewCommitsSinceMyReview(p, v) ==
    LET my_reviews == MyReviews(p, v)
    IN  /\ my_reviews # <<>>
        /\ Truthy(p.last_commit_date)
        /\ TsGreater(p.last_commit_date, PyMax(CreatedAts(my_reviews)))

\* A variant without rule 1.
NeedsAttentionNoRule1(p, v) ==
    IF p.review_count = Num(0) THEN TRUE
    ELSE NewCommitsSinceMyReview(p, v)

\* A variant without rule 2.
NeedsAttentionNoRule2(p, v) ==
    IF PyIn(v, p.requested_reviewers) THEN TRUE
    ELSE NewCommitsSinceMyReview(p, v)

\* _needs_attention(pr, viewer)
NeedsAttention(p, v) ==
    IF PyIn(v, p.requested_reviewers) THEN TRUE
    ELSE IF p.review_count = Num(0) THEN TRUE
    ELSE NewCommitsSinceMyReview(p, v)

\* A record as fetch_open_prs builds it.
PrRecord(rname, number, created_at, author, rc, rr, rv, lcd) ==
    [tag |-> "record", repo |-> rname, number |-> number, title |-> Str("t"),
     url |-> Str("u"), created_at |-> created_at, is_draft |-> Bool(FALSE),
     author |-> author, labels |-> <<>>, comment_count |-> Num(0),
     review_count |-> rc, requested_reviewers |-> rr,
     reviews |-> rv, last_commit_date |-> lcd, ci_state |-> None]

Review(a, t) == [tag |-> "review", author |-> a, created_at |-> t]

\* ------------------------------------------------- SpecAttn: one record

MaxReviews == 2

Logins == {Str("alice"), Str("bob")}

\* The sequences over S of length at most n.
SeqUpTo(S, n) == UNION {[1..k -> S] : k \in 0..n}

RequestedReviewerLists ==
    {<<>>, <<Str("alice")>>, <<Str("bob")>>, <<Str("bob"), Str("alice")>>}

ReviewCounts == {Num(0), Num(1), Num(2)}

ReviewLists == SeqUpTo({Review(a, t) : a \in Logins, t \in Timestamps}, MaxReviews)

InitAttn ==
    /\ pc = "unclassified"
    /\ viewer \in Logins
    /\ \E author \in Logins, rc \in ReviewCounts, rr \in RequestedReviewerLists,
          rv \in ReviewLists, lcd \in Timestamps \cup {None} :
         pr = PrRecord(Str("a"), Num(1), Ts(<<0, 0>>), author, rc, rr, rv, lcd)
    /\ record = None
    /\ repo = None
    /\ cursor = None /\ all_prs = <<>> /\ requests = <<>> /\ served = <<>>
    /\ ignore = {} /\ output = None /\ prs = <<>>
    /\ report = None /\ exit_code = None /\ stderr = <<>>
    /\ viewer_resp = None
    /\ NoSpinner

\* One call of _needs_attention(pr, viewer).
Classify ==
    /\ pc = "unclassified"
    /\ record' = Bool(NeedsAttention(pr, viewer))
    /\ pc' = "classified"
    /\ UNCHANGED <<cursor, all_prs, requests, served, ignore, output, prs, viewer,
                   report, exit_code, stderr, viewer_resp, repo, pr>>
    /\ UNCHANGED spinner_vars

NextAttn == Classify

SpecAttn == InitAttn /\ [][NextAttn]_vars

\* The instant a timestamp string denotes.
TsVal(t) == t.d[1] * 10 + t.d[2]

\* The instants of the viewer's reviews of record p.
MyReviewInstants(p, v) ==
    {TsVal(p.reviews[i].created_at) :
        i \in {j \in 1..Len(p.reviews) : p.reviews[j].author = v}}

\* The latest of a non-empty set of instants.
Latest(S) == CHOOSE m \in S : \A x \in S : x <= m

\* C2: a viewer who is in requested_reviewers gets true, whatever
\* review_count, reviews and last_commit_date are.
C2_RequestedViewerNeedsAttention ==
    (pc = "classified" /\ PyIn(viewer, pr.requested_reviewers))
        => record = Bool(TRUE)

\* The viewer is requested and is the author, and rules 2 and 3 do not apply.
C2_Witness ==
    /\ pc = "classified"
    /\ PyIn(viewer, pr.requested_reviewers)
    /\ pr.author = viewer
    /\ pr.review_count # Num(0)
    /\ MyReviewInstants(pr, viewer) # {}
    /\ pr.last_commit_date # None
    /\ TsVal(pr.last_commit_date) < Latest(MyReviewInstants(pr, viewer))
    /\ record = Bool(TRUE)

\* C3: a record with review_count 0 gets true for every viewer, also when
\* the viewer is not requested and there is no latest-commit timestamp.
C3_UnreviewedNeedsAttention ==
    (pc = "classified" /\ pr.review_count = Num(0)) => record = Bool(TRUE)

C3_Witness ==
    /\ pc = "classified"
    /\ pr.review_count = Num(0)
    /\ ~PyIn(viewer, pr.requested_reviewers)
    /\ pr.last_commit_date = None
    /\ record = Bool(TRUE)

\* C4: with review_count > 0, the viewer not requested and at least one
\* review by the viewer, the result is true exactly when the latest commit
\* is strictly later than the latest of the viewer's reviews, in whatever
\* order the reviews are listed.
C4_NewCommitsSinceLatestOwnReview ==
    (/\ pc = "classified"
     /\ pr.review_count # Num(0)
     /\ ~PyIn(viewer, pr.requested_reviewers)
     /\ MyReviewInstants(pr, viewer) # {}
     /\ pr.last_commit_date # None)
        => record = Bool(TsVal(pr.last_commit_date) > Latest(MyReviewInstants(pr, viewer)))

\* The viewer's latest review is listed before an older one, and the latest
\* commit lies between the two: the result is false.
C4_Witness ==
    /\ pc = "classified"
    /\ pr.review_count # Num(0)
    /\ ~PyIn(viewer, pr.requested_reviewers)
    /\ Len(pr.reviews) = 2
    /\ pr.reviews[1].author = viewer
    /\ pr.reviews[2].author = viewer
    /\ pr.last_commit_date # None
    /\ TsVal(pr.reviews[2].created_at) < TsVal(pr.last_commit_date)
    /\ TsVal(pr.last_commit_date) < TsVal(pr.reviews[1].created_at)
    /\ record = Bool(FALSE)

\* ------------------------------------------------- main: the ranking step

\* pr["needs_attention"] = b
WithAttention(p, b) == [needs_attention |-> Bool(b)] @@ p

\* The first component of the sort key: not pr["needs_attention"].
NotAttention(p) == ~p.needs_attention.b

\* A variant whose key is the creation time alone.
KeyLessCreatedOnly(p, q) == StrLess(p.created_at.d, q.created_at.d)

\* key(p) < key(q) for the key (not needs_attention, created_at): tuples
\* compare component by component, and False < True.
KeyLess(p, q) ==
    \/ ~NotAttention(p) /\ NotAttention(q)
    \/ /\ NotAttention(p) = NotAttention(q)
       /\ StrLess(p.created_at.d, q.created_at.d)

\* A variant that puts x before the records whose key equals its own.
InsertBeforeEqual(x, q) ==
    LET k == Cardinality({i \in 1..Len(q) : KeyLess(q[i], x)})
    IN  SubSeq(q, 1, k) \o <<x>> \o SubSeq(q, k + 1, Len(q))

\* x put into the sorted list q behind every record whose key is not
\* greater than its own: list.sort is stable.
InsertStable(x, q) ==
    LET k == Cardinality({i \in 1..Len(q) : ~KeyLess(x, q[i])})
    IN  SubSeq(q, 1, k) \o <<x>> \o SubSeq(q, k + 1, Len(q))

RECURSIVE PySortFrom(_, _, _)
PySortFrom(q, i, sorted) ==
    IF i > Len(q) THEN sorted
    ELSE PySortFrom(q, i + 1, InsertStable(q[i], sorted))

\* prs.sort(key=lambda pr: (not pr["needs_attention"], pr["created_at"]))
PySort(q) == PySortFrom(q, 1, <<>>)

\* The for loop of lines 452-453.
Classified(q, v) == [i \in 1..Len(q) |-> WithAttention(q[i], NeedsAttention(q[i], v))]

\* main, lines 451-455.
Rank ==
    /\ pc = "identified"
    /\ prs' = PySort(Classified(prs, viewer))
    /\ pc' = "ranked"
    /\ UNCHANGED <<cursor, all_prs, requests, served, ignore, output, viewer,
                   report, exit_code, stderr, viewer_resp, repo, pr, record>>
    /\ UNCHANGED spinner_vars

\* ------------------------------------------------- SpecRank: one list

MaxPrs == 3

RepoNames == {Str("a"), Str("b")}

\* The records of a list: of either repository, created at any time, either
\* never reviewed (rule 2 applies) or reviewed once by someone else (no rule
\* applies).
RankRecords(n) ==
    {PrRecord(rname, Num(n), t, Str("bob"), rc, <<>>,
              IF rc = Num(0) THEN <<>> ELSE <<Review(Str("bob"), Ts(<<0, 1>>))>>, None) :
        rname \in RepoNames, t \in Timestamps, rc \in {Num(0), Num(1)}}

\* Any list of at most MaxPrs records, the record at position i carrying the
\* number i; all_prs keeps the list as it was before the ranking. The report
\* is the HTML one.
InitRank ==
    /\ pc = "identified"
    /\ viewer = Str("alice")
    /\ \E k \in 0..MaxPrs :
         /\ prs \in [1..k -> UNION {RankRecords(n) : n \in 1..MaxPrs}]
         /\ \A i \in 1..k : prs[i].number = Num(i)
    /\ all_prs = prs
    /\ ignore = {}
    /\ record = None /\ repo = None /\ pr = None
    /\ cursor = None /\ requests = <<>> /\ served = <<>>
    /\ output = Str("html") /\ report = None /\ exit_code = None /\ stderr = <<>>
    /\ viewer_resp = None
    /\ NoSpinner

\* The position in list q of the record with number n.
PosOf(q, n) == CHOOSE k \in 1..Len(q) : q[k].number = n

\* C5: after the ranking every record that needs attention stands before
\* every record that does not, and within each of the two groups the
\* creation instants do not decrease along the list.
C5_RankedOrder ==
    pc = "ranked" =>
        \A i, j \in 1..Len(prs) :
            i < j =>
                /\ ~(~prs[i].needs_attention.b /\ prs[j].needs_attention.b)
                /\ (prs[i].needs_attention = prs[j].needs_attention
                        => TsVal(prs[i].created_at) <= TsVal(prs[j].created_at))

\* The ranking moved a record of each group forward: the list before it had
\* a record that needs no attention first and a younger record before an
\* older one of the same group.
C5_Witness ==
    /\ pc = "ranked"
    /\ Len(prs) = 3
    /\ all_prs[1].review_count # Num(0)
    /\ prs[1].needs_attention.b
    /\ ~prs[3].needs_attention.b
    /\ \E i, j \in 1..3 :
         /\ i < j
         /\ all_prs[i].review_count = all_prs[j].review_count
         /\ TsVal(all_prs[i].created_at) > TsVal(all_prs[j].created_at)

\* C6: two records with the same needs_attention flag and the same
\* created_at stand in the ranked list in the order they had before it.
C6_RankingStable ==
    pc = "ranked" =>
        \A i, j \in 1..Len(all_prs) :
            LET a == PosOf(prs, all_prs[i].number)
                b == PosOf(prs, all_prs[j].number)
            IN  (/\ i < j
                 /\ prs[a].needs_attention = prs[b].needs_attention
                 /\ prs[a].created_at = prs[b].created_at)
                    => a < b

\* Two tied records, and a record that the ranking moved from behind them to
\* the front.
C6_Witness ==
    /\ pc = "ranked"
    /\ Len(prs) = 3
    /\ prs[1].number = Num(3)
    /\ prs[2].number = Num(1)
    /\ prs[3].number = Num(2)
    /\ prs[2].needs_attention = prs[3].needs_attention
    /\ prs[2].created_at = prs[3].created_at

\* ------------------------------------------------- the upstream

MaxPages == 3

\* Pull request nodes as the upstream answers QUERY: every selected field is
\* there; the author of a deleted account, a requested reviewer that is a
\* team and the check rollup of a commit without checks are null or empty.
Pr1 ==
    RawPr(Num(1), Str("t"), Str("u"), Ts(<<0, 1>>), None, Connection(EmptyList),
          Connection(EmptyList), ReviewConnection(Num(0), EmptyList),
          Connection(List(<<CommitEntry(Commit(Ts(<<0, 1>>), None))>>)))

Pr2 ==
    RawPr(Num(2), Str("t"), Str("u"), Ts(<<0, 0>>), User(Str("bob")),
          Connection(List(<<LabelNode>>)),
          Connection(List(<<ReviewRequest(Team), ReviewRequest(User(Str("alice")))>>)),
          ReviewConnection(Num(1), List(<<ReviewNode(None, Ts(<<0, 1>>))>>)),
          Connection(List(<<CommitEntry(Commit(Ts(<<1, 0>>), Obj([state |-> Str("SUCCESS")])))>>)))

Pr3 ==
    RawPr(Num(3), Str("t"), Str("u"), Ts(<<0, 0>>), User(Str("alice")),
          Connection(EmptyList), Connection(EmptyList),
          ReviewConnection(Num(1), List(<<ReviewNode(User(Str("bob")), Ts(<<1, 1>>))>>)),
          Connection(List(<<CommitEntry(Commit(Ts(<<1, 0>>), Obj([state |-> Str("FAILURE")])))>>)))

RepoNode(name, nodes) == Obj([name |-> name, pullRequests |-> Connection(List(nodes))])

\* The repository nodes of the organization, and the lists of them a page
\* may carry.
RepoA == RepoNode(Str("a"), <<Pr1>>)
RepoB == RepoNode(Str("b"), <<Pr2, Pr3>>)

PageNodeLists == {<<>>, <<RepoA>>, <<RepoB>>, <<RepoA, RepoB>>, <<RepoB, RepoA>>}

\* The end cursor of the k-th page: an opaque string.
CursorOf(k) == [tag |-> "str", cursor |-> k]

\* The body of a page response.
PageBody(errors, nodes, hasNextPage, endCursor) ==
    Obj([errors |-> errors,
         data |-> Obj([organization |-> Obj([repositories |->
                    Obj([pageInfo |-> Obj([hasNextPage |-> Bool(hasNextPage),
                                           endCursor |-> endCursor]),
                         nodes |-> List(nodes)])])])])

\* A declared errors array.
Errors == List(<<Str("error")>>)

\* A request that failed in transport, and an HTTP response.
TransportFailure == [kind |-> "transport"]
Http(status, body) == [kind |-> "http", status |-> status, body |-> body]

\* The bodies the upstream may send for the k-th page request: any of the
\* lists of repository nodes, with or without a declared errors array. The
\* upstream is finite: its MaxPages-th page is its last.
PageBodies(k) ==
    {PageBody(e, nodes, more, CursorOf(k)) :
        e \in {Absent, Errors},
        nodes \in PageNodeLists,
        more \in IF k < MaxPages THEN BOOLEAN ELSE {FALSE}}

\* The answers to the k-th page request.
PageResponses(k) ==
    {TransportFailure} \cup {Http(st, None) : st \in {401, 500, 502}}
    \cup {Http(200, b) : b \in PageBodies(k)}

\* The answers to the viewer query: a failure, or a body with the login, with
\* a declared errors array and no data, or with both.
ViewerBody(errors, data) == Obj([errors |-> errors, data |-> data])

ViewerData(login) == Obj([viewer |-> Obj([login |-> login])])

ViewerResponses ==
    {TransportFailure} \cup {Http(st, None) : st \in {401, 500, 502}}
    \cup {Http(200, ViewerBody(Absent, ViewerData(l))) : l \in Logins}
    \cup {Http(200, ViewerBody(Errors, None)),
          Http(200, ViewerBody(Errors, ViewerData(Str("alice"))))}

\* ------------------------------------------------- fetch_open_prs: the walk

\* s1 \o s2 \o ... for a sequence of sequences
RECURSIVE Flatten(_)
Flatten(qq) == IF qq = <<>> THEN <<>> ELSE Head(qq) \o Flatten(Tail(qq))

\* The inner for loop: the result of each node of repository node rp.
RepoResults(rp) ==
    LET nodes == DictIndex(DictIndex(rp, "pullRequests"), "nodes").items
    IN  [i \in 1..Len(nodes) |-> Normalize(rp, nodes[i])]

\* The outer for loop over repos["nodes"].
PageResults(repos) ==
    LET nodes == DictIndex(repos, "nodes").items
    IN  Flatten([i \in 1..Len(nodes) |-> RepoResults(nodes[i])])

\* data["data"]["organization"]["repositories"]
Repositories(data) == DictIndex(DictIndex(DictIndex(data, "data"), "organization"), "repositories")

\* A variant that never sees a declared errors array.
DeclaresErrorsNever(data) == FALSE

\* "errors" in data
DeclaresErrors(data) == data.f.errors.tag # "absent"

\* repos["pageInfo"]["hasNextPage"]
HasNextPage(repos) == Truthy(DictIndex(DictIndex(repos, "pageInfo"), "hasNextPage"))

\* A variant that keeps the cursor it has.
NextCursorStale(repos, c) == c

\* The cursor after a page: lines 193-194.
NextCursor(repos, c) ==
    IF HasNextPage(repos) THEN DictIndex(DictIndex(repos, "pageInfo"), "endCursor") ELSE c

\* Whether the while loop goes round again: lines 193-196.
WalkGoesOn(repos) == HasNextPage(repos)

\* The process ends with outcome 1 and diagnostic d: sys.exit(1) after a
\* print, or an exception nobody catches.
Abort(d) ==
    /\ pc' = "exited"
    /\ exit_code' = Num(1)
    /\ stderr' = Append(stderr, d)

\* One round of the while loop of fetch_open_prs, lines 135-196, and with
\* the last page the return to main (line 443).
FetchPage ==
    /\ pc = "fetching"
    /\ \E resp \in PageResponses(Len(served) + 1) :
         /\ requests' = Append(requests, cursor)
         /\ served' = Append(served, resp)
         /\ IF resp.kind = "transport"
              THEN Abort("ConnectionError") /\ UNCHANGED <<cursor, all_prs>>
            ELSE IF resp.status >= 500
              THEN Abort("outage") /\ UNCHANGED <<cursor, all_prs>>
            ELSE IF resp.status >= 400
              THEN Abort("HTTPError") /\ UNCHANGED <<cursor, all_prs>>
            ELSE IF DeclaresErrors(resp.body)
              THEN Abort("GraphQL errors") /\ UNCHANGED <<cursor, all_prs>>
            ELSE LET repos == Repositories(resp.body)
                     results == PageResults(repos)
                 IN  IF AnyRaise(results)
                       THEN Abort(FirstRaise(results).exc) /\ UNCHANGED <<cursor, all_prs>>
                     ELSE /\ all_prs' = all_prs \o results
                          /\ cursor' = NextCursor(repos, cursor)
                          /\ pc' = IF WalkGoesOn(repos) THEN "fetching" ELSE "fetched"
                          /\ UNCHANGED <<exit_code, stderr>>
    /\ UNCHANGED <<ignore, output, prs, viewer, report, viewer_resp, repo, pr, record>>
    /\ UNCHANGED spinner_vars

\* ------------------------------------------------- main

\* A variant that keeps every record.
NotIgnoredAll(q, ig) == q

\* [pr for pr in prs if pr["repo"] not in ignore]
NotIgnored(q, ig) == SelectSeq(q, LAMBDA p : p.repo \notin ig)

\* main, lines 443-445: prs is what fetch_open_prs returned, less the
\* ignored repositories.
FilterIgnored ==
    /\ pc = "fetched"
    /\ prs' = NotIgnored(all_prs, ignore)
    /\ pc' = "filtered"
    /\ UNCHANGED <<cursor, all_prs, requests, served, ignore, output, viewer,
                   report, exit_code, stderr, viewer_resp, repo, pr, record>>
    /\ UNCHANGED spinner_vars

\* resp.json()["data"]["viewer"]["login"]
ViewerLogin(body) == DictIndex(DictIndex(DictIndex(body, "data"), "viewer"), "login")

\* main, lines 447-449, with fetch_viewer_login, lines 111-122.
FetchViewerLogin ==
    /\ pc = "filtered"
    /\ \E resp \in ViewerResponses :
         /\ viewer_resp' = resp
         /\ IF resp.kind = "transport"
              THEN Abort("ConnectionError") /\ UNCHANGED viewer
            ELSE IF resp.status >= 400
              THEN Abort("HTTPError") /\ UNCHANGED viewer
            ELSE IF IsRaise(ViewerLogin(resp.body))
              THEN Abort(ViewerLogin(resp.body).exc) /\ UNCHANGED viewer
            ELSE /\ viewer' = ViewerLogin(resp.body)
                 /\ pc' = "identified"
                 /\ UNCHANGED <<exit_code, stderr>>
    /\ UNCHANGED <<cursor, all_prs, requests, served, ignore, output, prs,
                   report, repo, pr, record>>
    /\ UNCHANGED spinner_vars

\* ------------------------------------------------- render_html

\* The code points of a repository name.
CodePoints(name) == CASE name = Str("a") -> <<97>> [] name = Str("b") -> <<98>>

\* str.casefold on code points: an upper-case letter becomes its lower-case
\* one.
CaseFold(cp) == [i \in 1..Len(cp) |-> IF cp[i] >= 65 /\ cp[i] <= 90 THEN cp[i] + 32 ELSE cp[i]]

\* key(a) < key(b) for key=str.casefold
CaseFoldLess(a, b) == StrLess(CaseFold(CodePoints(a)), CaseFold(CodePoints(b)))

\* The dict grouped: its keys in insertion order, and the list of each.
NoGroups == [keys |-> <<>>, lists |-> <<>>]

\* A variant that puts the record at the head of its group.
AppendedAtHead(group, p) == <<p>> \o group

\* list.append
Appended(group, p) == Append(group, p)

\* grouped.setdefault(k, []).append(p)
SetDefaultAppend(g, k, p) ==
    IF \E i \in 1..Len(g.keys) : g.keys[i] = k
      THEN LET i == CHOOSE i \in 1..Len(g.keys) : g.keys[i] = k
           IN  [g EXCEPT !.lists[i] = Appended(@, p)]
      ELSE [keys |-> Append(g.keys, k), lists |-> Append(g.lists, Appended(<<>>, p))]

\* The for loop of lines 312-313.
RECURSIVE GroupedFrom(_, _, _)
GroupedFrom(q, i, g) ==
    IF i > Len(q) THEN g
    ELSE GroupedFrom(q, i + 1, SetDefaultAppend(g, q[i].repo, q[i]))

Grouped(q) == GroupedFrom(q, 1, NoGroups)

\* sorted(grouped, key=str.casefold): a stable sort of the keys.
InsertKey(k, ks) ==
    LET n == Cardinality({i \in 1..Len(ks) : ~CaseFoldLess(k, ks[i])})
    IN  SubSeq(ks, 1, n) \o <<k>> \o SubSeq(ks, n + 1, Len(ks))

RECURSIVE SortedKeysFrom(_, _, _)
SortedKeysFrom(ks, i, sorted) ==
    IF i > Len(ks) THEN sorted
    ELSE SortedKeysFrom(ks, i + 1, InsertKey(ks[i], sorted))

SortedKeys(g) == SortedKeysFrom(g.keys, 1, <<>>)

\* grouped[repo_name]
GroupOf(g, k) == g.lists[CHOOSE i \in 1..Len(g.keys) : g.keys[i] = k]

\* render_html: the records in the order of their rows in the document,
\* group after group.
RenderHtml(q) ==
    LET grouped == Grouped(q)
        names == SortedKeys(grouped)
    IN  Flatten([i \in 1..Len(names) |-> GroupOf(grouped, names[i])])

\* print_table: the records in the order of their rows.
PrintTable(q) == q

\* main, lines 458-469: the HTML report is written, or the table printed.
WriteReport ==
    /\ pc = "ranked"
    /\ report' = [kind |-> IF output = Str("html") THEN "html" ELSE "table",
                  prs |-> prs,
                  rows |-> IF output = Str("html") THEN RenderHtml(prs) ELSE PrintTable(prs)]
    /\ pc' = "done"
    /\ exit_code' = Num(0)
    /\ UNCHANGED <<cursor, all_prs, requests, served, ignore, output, prs, viewer,
                   stderr, viewer_resp, repo, pr, record>>
    /\ UNCHANGED spinner_vars

\* main from line 442 on: the token, the organization, the ignore-list and
\* the output format are resolved.
Init ==
    /\ pc = "fetching"
    /\ cursor = None
    /\ all_prs = <<>>
    /\ requests = <<>>
    /\ served = <<>>
    /\ ignore \in SUBSET RepoNames
    /\ output \in {None, Str("html")}
    /\ prs = <<>>
    /\ viewer = None
    /\ report = None
    /\ exit_code = None
    /\ stderr = <<>>
    /\ viewer_resp = None
    /\ repo = None /\ pr = None /\ record = None
    /\ NoSpinner

Next == FetchPage \/ FilterIgnored \/ FetchViewerLogin \/ Rank \/ WriteReport

Spec == Init /\ [][Next]_vars

\* The ranking of one list and its report: main from line 451 on.
NextRank == Rank \/ WriteReport

SpecRank == InitRank /\ [][NextRank]_vars

\* ------------------------------------------------- the claims on the walk

\* The k-th answer is a page without declared errors.
IsPage(resp) == resp.kind = "http" /\ resp.status = 200 /\ resp.body.f.errors = Absent

\* The raw nodes of a page, each with its repository node, in upstream order.
RawItemsOfRepo(rp) ==
    [i \in 1..Len(rp.f.pullRequests.f.nodes.items) |->
        <<rp, rp.f.pullRequests.f.nodes.items[i]>>]

RawItemsOfPage(resp) ==
    LET nodes == resp.body.f.data.f.organization.f.repositories.f.nodes.items
    IN  Flatten([i \in 1..Len(nodes) |-> RawItemsOfRepo(nodes[i])])

\* The raw nodes of every page served, in upstream order.
RawItemsServed == Flatten([k \in 1..Len(served) |-> RawItemsOfPage(served[k])])

PageInfo(resp) == resp.body.f.data.f.organization.f.repositories.f.pageInfo.f

RECURSIVE SumOf(_)
SumOf(q) == IF q = <<>> THEN 0 ELSE Head(q) + SumOf(Tail(q))

\* What fetch_open_prs returned is right: N pages were served, the first N-1
\* with hasNextPage true and the last with hasNextPage false; N requests were
\* sent, the first with a null cursor and each later one with the endCursor
\* of the page before it; and all_prs holds, in upstream order, one record
\* for every pull request of every page.
WalkExact ==
    LET raw == RawItemsServed
    IN  /\ Len(served) >= 1
        /\ Len(requests) = Len(served)
        /\ \A k \in 1..Len(served) : IsPage(served[k])
        /\ \A k \in 1..Len(served) : PageInfo(served[k]).hasNextPage.b = (k < Len(served))
        /\ requests[1] = None
        /\ \A k \in 2..Len(requests) : requests[k] = PageInfo(served[k - 1]).endCursor
        /\ Len(all_prs) = SumOf([k \in 1..Len(served) |-> Len(RawItemsOfPage(served[k]))])
        /\ \A i \in 1..Len(all_prs) :
             /\ all_prs[i].repo = raw[i][1].f.name
             /\ all_prs[i].number = raw[i][2].f.number
             /\ all_prs[i] = Normalize(raw[i][1], raw[i][2])

\* fetch_open_prs returned to main: the process is past the walk and did not
\* end in it.
Returned == pc # "fetching" /\ (pc = "exited" => viewer_resp # None)

\* The upstream served its pages to the end: every page but the last said
\* hasNextPage, and the last did not.
ServedToTheEnd ==
    /\ Len(served) >= 1
    /\ \A k \in 1..Len(served) : IsPage(served[k])
    /\ ~PageInfo(served[Len(served)]).hasNextPage.b

\* C1: against an upstream of N pages the walk sends exactly N requests, the
\* first with a null cursor and each later one with the endCursor of the
\* page before it, ends, and returns the concatenation of the pull requests
\* of all pages in upstream order. It ends: while it runs, it has sent fewer
\* requests than the upstream has pages, and its next round can be taken.
C1_WalkExactAndEnds ==
    /\ ServedToTheEnd => Returned
    /\ pc = "fetched" => WalkExact
    /\ pc = "fetching" =>
          /\ Len(requests) = Len(served)
          /\ Len(requests) < MaxPages
          /\ \A k \in 1..Len(served) : IsPage(served[k]) /\ PageInfo(served[k]).hasNextPage.b
          /\ ENABLED FetchPage

\* Three pages were walked, and pull requests came from more than one page.
C1_Witness ==
    /\ pc = "fetched"
    /\ Len(requests) = 3
    /\ requests[2] # requests[3]
    /\ Len(RawItemsOfPage(served[1])) >= 1
    /\ Len(RawItemsOfPage(served[3])) >= 2
    /\ Len(all_prs) >= 4

\* ------------------------------------------------- the claims on errors

\* The answer is an HTTP 200 whose body declares an errors array.
DeclaredErrors(resp) == resp.kind = "http" /\ resp.status = 200 /\ resp.body.f.errors = Errors

\* The answer is a fatal error: a transport failure, an HTTP 4xx or 5xx, or
\* a declared errors array.
FatalError(resp) ==
    \/ resp.kind = "transport"
    \/ resp.kind = "http" /\ resp.status >= 400
    \/ DeclaredErrors(resp)

\* C7: when the answer to the k-th page request declares errors, even
\* beside valid data, the run ends there with a non-zero outcome: no further
\* page is requested and main gets no records, neither of page k nor of the
\* pages before it.
C7_DeclaredErrorsAbortTheWalk ==
    \A k \in 1..Len(served) :
        DeclaredErrors(served[k]) =>
            /\ k = Len(served)
            /\ Len(requests) = k
            /\ pc = "exited"
            /\ exit_code = Num(1)
            /\ prs = <<>>
            /\ viewer_resp = None
            /\ report = None

\* The second page declared errors beside two repositories of pull
\* requests, after a first page with pull requests.
C7_Witness ==
    /\ pc = "exited"
    /\ Len(served) = 2
    /\ IsPage(served[1])
    /\ Len(RawItemsOfPage(served[1])) >= 1
    /\ DeclaredErrors(served[2])
    /\ Len(RawItemsOfPage(served[2])) = 3

\* A fatal error occurred in the run: on a page request or on the viewer
\* lookup.
FatalErrorOccurred ==
    \/ \E k \in 1..Len(served) : FatalError(served[k])
    \/ viewer_resp # None /\ FatalError(viewer_resp)

\* C8: a run in which a fatal error occurred, on a page request or on the
\* viewer lookup, ends with a non-zero outcome and without a report; a
\* report is only produced when every request succeeded.
C8_NoReportAfterFatalError ==
    /\ (pc \in {"done", "exited"} /\ FatalErrorOccurred)
            => (exit_code = Num(1) /\ report = None)
    /\ report # None => ~FatalErrorOccurred

\* The answer is an HTTP 5xx, or an HTTP 4xx.
ServerError(resp) == resp.kind = "http" /\ resp.status >= 500
ClientError(resp) == resp.kind = "http" /\ resp.status >= 400 /\ resp.status < 500

\* The answers of the run's requests so far, the viewer lookup's last.
Answers == served \o (IF viewer_resp = None THEN <<>> ELSE <<viewer_resp>>)

\* C11: a run one of whose requests, a page request or the viewer lookup,
\* was answered HTTP 5xx ended there with a non-zero outcome and the outage
\* diagnostic; one answered HTTP 4xx ended there with a non-zero outcome and
\* another diagnostic; the outage diagnostic is printed for a 5xx only, and
\* no request is sent again: every request has one answer and the failed one
\* is the last.
C11_ServerErrorsGetOutageDiagnostic ==
    /\ Len(requests) = Len(served)
    /\ \A k \in 1..Len(Answers) :
         /\ ServerError(Answers[k]) =>
               /\ k = Len(Answers)
               /\ pc = "exited" /\ exit_code = Num(1) /\ report = None
               /\ stderr = <<"outage">>
         /\ ClientError(Answers[k]) =>
               /\ k = Len(Answers)
               /\ pc = "exited" /\ exit_code = Num(1) /\ report = None
               /\ Len(stderr) = 1 /\ stderr[1] # "outage"
    /\ (\E i \in 1..Len(stderr) : stderr[i] = "outage")
          => Answers # <<>> /\ ServerError(Answers[Len(Answers)])

\* ------------------------------------------------- the claims on main

\* Record p without its needs_attention flag.
Unflagged(p) == [k \in DOMAIN p \ {"needs_attention"} |-> p[k]]

\* How often record r stands in list q.
Occurrences(r, q) == Cardinality({i \in 1..Len(q) : q[i] = r})

\* The list main works on when it classifies, ranks and presents.
Filtered == pc \in {"filtered", "identified", "ranked", "done"}

\* C12: from the filter on, the list main works on holds no record of an
\* ignored repository and every fetched record of the other repositories as
\* often as it was fetched; once ranked, each of its records carries a
\* needs_attention flag, and the list handed to the presentation is that
\* list.
C12_PresentedIsFetchedLessIgnored ==
    /\ Filtered =>
          /\ \A i \in 1..Len(prs) : prs[i].repo \notin ignore
          /\ \A j \in 1..Len(all_prs) :
                all_prs[j].repo \notin ignore =>
                    Occurrences(all_prs[j], all_prs)
                        = Occurrences(all_prs[j], [i \in 1..Len(prs) |-> Unflagged(prs[i])])
          /\ \A i \in 1..Len(prs) : Occurrences(Unflagged(prs[i]), all_prs) >= 1
    /\ pc \in {"ranked", "done"} =>
          \A i \in 1..Len(prs) :
              /\ "needs_attention" \in DOMAIN prs[i]
              /\ prs[i].needs_attention \in {Bool(TRUE), Bool(FALSE)}
    /\ pc = "done" => report.prs = prs

\* A report of the records of repository b, one flagged and one not, after
\* a fetch that also brought a record of the ignored repository a.
C12_Witness ==
    /\ pc = "done"
    /\ ignore = {Str("a")}
    /\ \E j \in 1..Len(all_prs) : all_prs[j].repo = Str("a")
    /\ Len(report.prs) = 2
    /\ report.prs[1].needs_attention = Bool(TRUE)
    /\ report.prs[2].needs_attention = Bool(FALSE)

\* ------------------------------------------------- the claims on render_html

\* The records of repository r in list q, in the order of q.
OfRepo(q, r) == SelectSeq(q, LAMBDA p : p.repo = r)

\* C13: the rows of the HTML report are the records of the ranked list, and
\* two records of one repository stand in the rows in the order the ranking
\* gave them: within a repository group the records that need attention
\* come first, and within either kind the creation instants do not
\* decrease.
C13_GroupingKeepsRankedOrder ==
    (pc = "done" /\ report.kind = "html") =>
        /\ Len(report.rows) = Len(prs)
        /\ \A i \in 1..Len(prs) :
              OfRepo(report.rows, prs[i].repo) = OfRepo(prs, prs[i].repo)
        /\ \A i, j \in 1..Len(report.rows) :
              (i < j /\ report.rows[i].repo = report.rows[j].repo) =>
                  /\ ~(~report.rows[i].needs_attention.b /\ report.rows[j].needs_attention.b)
                  /\ (report.rows[i].needs_attention = report.rows[j].needs_attention
                        => TsVal(report.rows[i].created_at) <= TsVal(report.rows[j].created_at))

\* The ranked list alternates between the two repositories, so the grouping
\* moved a record, and a group holds two records.
C13_Witness ==
    /\ pc = "done" /\ report.kind = "html"
    /\ Len(prs) = 3
    /\ prs[1].repo = Str("b") /\ prs[2].repo = Str("a") /\ prs[3].repo = Str("b")
    /\ report.rows = <<prs[2], prs[1], prs[3]>>
    /\ prs[1].needs_attention # prs[3].needs_attention

\* ------------------------------------------------- the claims on the record set

\* C14: in the list fetch_open_prs returned, no two records have the same
\* repository name and number, whatever pages the upstream served.
C14_FetchedRecordsUnique ==
    pc = "fetched" =>
        \A i, j \in 1..Len(all_prs) :
            (all_prs[i].repo = all_prs[j].repo /\ all_prs[i].number = all_prs[j].number)
                => i = j

\* List q in the order f: the same records, fetched in another order.
Permuted(q, f) == [i \in 1..Len(q) |-> q[f[i]]]

\* C15: the ranked list is the same for every order in which the records
\* could have been fetched, records with the same needs_attention flag and
\* the same created_at included.
C15_RankingIgnoresFetchOrder ==
    pc = "ranked" =>
        \A f \in Permutations(1..Len(all_prs)) :
            PySort(Classified(Permuted(all_prs, f), viewer)) = prs

\* ------------------------------------------------- the claims on _needs_attention

\* The three rules, on the instants the timestamps denote.
Rule1 == \E i \in 1..Len(pr.requested_reviewers) : pr.requested_reviewers[i] = viewer
Rule2 == pr.review_count = Num(0)
Rule3 ==
    /\ MyReviewInstants(pr, viewer) # {}
    /\ pr.last_commit_date # None
    /\ TsVal(pr.last_commit_date) > Latest(MyReviewInstants(pr, viewer))

\* C16: the result of _needs_attention is a boolean, true exactly when one
\* of the three rules holds; so it is false for a reviewed record whose
\* viewer is not requested and has no review in it, or that has no
\* latest-commit timestamp; and the call leaves the record and the viewer as
\* they were.
C16_TrueIffARuleHolds ==
    /\ [](pc = "classified" =>
            /\ record \in {Bool(TRUE), Bool(FALSE)}
            /\ record.b <=> (Rule1 \/ Rule2 \/ Rule3)
            /\ (/\ ~Rule1 /\ ~Rule2
                /\ MyReviewInstants(pr, viewer) = {} \/ pr.last_commit_date = None)
                   => record = Bool(FALSE))
    /\ [][pr' = pr /\ viewer' = viewer]_vars

\* The latest commit was made at the instant of the viewer's latest review:
\* not strictly later, so the result is false.
C16_Witness ==
    /\ pc = "classified"
    /\ ~Rule1 /\ ~Rule2
    /\ MyReviewInstants(pr, viewer) # {}
    /\ pr.last_commit_date # None
    /\ TsVal(pr.last_commit_date) = Latest(MyReviewInstants(pr, viewer))
    /\ Len(pr.reviews) = 2
    /\ record = Bool(FALSE)

\* ------------------------------------------------- spinner

MaxFrames == 3

\* len(_BRAILLE_FRAMES)
BrailleFrames == 10

\* What the n-th round of _spin prints: the frame itertools.cycle gives it.
Frame(n) == [kind |-> "frame", glyph |-> ((n - 1) % BrailleFrames) + 1]

\* The write that clears the line.
ClearLine == [kind |-> "clear"]

\* How the body of the with statement ends: it returns, raises, or calls
\* sys.exit.
BodyEnds == {None, Str("Exception"), Str("SystemExit")}

\* A variant of join that does not wait.
JoinedAtOnce(s) == TRUE

\* t.join() returns once the thread has ended.
Joined(s) == s = "ended"

\* spinner up to the yield: the event and the thread are made, the thread is
\* started.
Enter ==
    /\ pc = "entered"
    /\ spin' = "top"
    /\ pc' = "body"
    /\ UNCHANGED <<stderr, main_vars, done, frame, pending, set_at>>

\* The body of the with statement ends, and with it the yield.
LeaveBody ==
    /\ pc = "body"
    /\ pending' \in BodyEnds
    /\ pc' = "finally"
    /\ UNCHANGED <<stderr, main_vars, done, spin, frame, set_at>>

\* done.set()
SetDone ==
    /\ pc = "finally"
    /\ done' = TRUE
    /\ set_at' = Num(Len(stderr))
    /\ pc' = "joining"
    /\ UNCHANGED <<stderr, main_vars, spin, frame, pending>>

\* t.join()
Join ==
    /\ pc = "joining"
    /\ Joined(spin)
    /\ pc' = "clearing"
    /\ UNCHANGED <<stderr, main_vars, spinner_vars>>

\* The print of line 60, and the end of the context: the body's exception,
\* if any, goes on to the caller.
Clear ==
    /\ pc = "clearing"
    /\ stderr' = Append(stderr, ClearLine)
    /\ pc' = "left"
    /\ UNCHANGED <<main_vars, spinner_vars>>

\* _spin: the next frame of the cycle is taken and done is tested.
SpinTest ==
    /\ spin = "top"
    /\ frame' = frame + 1
    /\ spin' = IF done THEN "ended" ELSE "print"
    /\ UNCHANGED <<pc, stderr, main_vars, done, pending, set_at>>

\* _spin: the frame is printed. While the body runs, at most MaxFrames
\* frames are printed.
SpinPrint ==
    /\ spin = "print"
    /\ Len(stderr) < MaxFrames \/ done
    /\ stderr' = Append(stderr, Frame(frame))
    /\ spin' = "sleep"
    /\ UNCHANGED <<pc, main_vars, done, frame, pending, set_at>>

\* _spin: time.sleep(0.08) returns.
SpinSleep ==
    /\ spin = "sleep"
    /\ spin' = "top"
    /\ UNCHANGED <<pc, stderr, main_vars, done, frame, pending, set_at>>

\* A with statement is entered: spinner was called.
InitSpin ==
    /\ pc = "entered"
    /\ stderr = <<>>
    /\ NoSpinner
    /\ cursor = None /\ all_prs = <<>> /\ requests = <<>> /\ served = <<>>
    /\ ignore = {} /\ output = None /\ prs = <<>> /\ viewer = None
    /\ report = None /\ exit_code = None /\ viewer_resp = None
    /\ repo = None /\ pr = None /\ record = None

\* The steps of the main thread, and those of the thread t.
MainThread == Enter \/ LeaveBody \/ SetDone \/ Join \/ Clear
SpinThread == SpinTest \/ SpinPrint \/ SpinSleep

NextSpin == MainThread \/ SpinThread

\* Both threads get to run, and the body ends.
SpecSpin ==
    /\ InitSpin /\ [][NextSpin]_vars
    /\ WF_vars(MainThread) /\ WF_vars(SpinThread)

\* ------------------------------------------------- the claims on spinner

\* The frames written so far.
FramesWritten == Cardinality({i \in 1..Len(stderr) : stderr[i].kind = "frame"})

\* C17: in every interleaving of the two threads and however the body
\* ended, done is set once the context is being left; at most one frame is
\* written after that; join returns only when the thread has ended, and it
\* does return: a context being left is left; the clearing write is the last
\* write and nothing is written after the context was left.
C17_SpinnerStopsBeforeTheClear ==
    /\ [](pc \in {"joining", "clearing", "left"} => done)
    /\ [](done => FramesWritten - set_at.n <= 1)
    /\ [](pc \in {"clearing", "left"} => spin = "ended")
    /\ [](pc = "left" =>
            /\ stderr[Len(stderr)] = ClearLine
            /\ \A i \in 1..(Len(stderr) - 1) : stderr[i].kind = "frame")
    /\ [][pc = "left" => stderr' = stderr]_vars
    /\ (pc = "finally" ~> pc = "left")
    /\ (done ~> spin = "ended")

\* The body ended by sys.exit, and one frame was written after done was
\* set, before the clearing write.
C17_Witness ==
    /\ pc = "left"
    /\ pending = Str("SystemExit")
    /\ FramesWritten - set_at.n = 1
    /\ FramesWritten >= 2
    /\ stderr[Len(stderr)] = ClearLine

====
